---- MODULE Spec2Model ----
(***************************************************************************)
(* jovian-py: the commit flow of jovian/utils/commit.py over the API       *)
(* client of jovian/utils/api.py (credential provider, retry wrapper, API  *)
(* functions).  The program is sequential: one call stack, modelled as     *)
(* three nested positions, pc (commit), wpc (API function and retry        *)
(* wrapper) and kpc (get_api_key).  The remote service, the user at the    *)
(* prompt, the file system and the environment capturers answer            *)
(* nondeterministically.                                                   *)
(***************************************************************************)
EXTENDS Integers, Sequences, FiniteSets, TLC

\* ------------------------------------------------------------- bounds
MaxCommits == 2        \* commit() calls per process
MaxVersion == 2        \* version numbers the service hands out: 1..MaxVersion
MaxPaths == 2          \* length of the files / outputs lists
MaxDirFiles == 2       \* files under a directory of such a list
MaxRecords == 1        \* records logged into the buffer
RecursionLimit == 3    \* depth at which the interpreter raises RecursionError

\* -------------------------------------------------- program constants
Attempts == 2          \* for i in range(2)
HTTP_OK == 200
HTTP_UNAUTHORIZED == 401

\* --------------------------------------------------------------- values
None == "None"
Keys == {"k1", "k2"}
Statuses == {HTTP_OK, HTTP_UNAUTHORIZED, 404}
Slugs == {"s1", "s2"}
Filenames == {"main.py", "main.ipynb"}
\* what the service knows of a project; slug, owner and title go together
Projects ==
    { [slug |-> "s1", owner |-> "alice", title |-> "t1"],
      [slug |-> "s2", owner |-> "bob", title |-> "t2"] }
NoData == [slug |-> None, owner |-> None, title |-> None, version |-> 0, write |-> FALSE]
NoRes == [status |-> 0, data |-> NoData]
\* a request or step of a commit: what, on which project and version, and
\* (for steps) whether it went through
NoEp == [name |-> None, slug |-> None, version |-> 0, ok |-> TRUE]
Ep(n, s, v) == [name |-> n, slug |-> s, version |-> v, ok |-> TRUE]

VARIABLES
    creds,          \* the credentials store's API token, or None
    current_slug,   \* commit._current_slug
    rc,             \* .jovianrc: filename -> slug or None
    records,        \* number of records in the record buffer
    git_records,    \* how many of these records are of type 'git'
    ncommits,       \* commit() calls made so far
    ctx,            \* what in_script() / in_notebook() detect in this process
    kpc, key,       \* get_api_key: position and the local variable key
    hit,            \* the store's token when get_api_key was entered
    prompts, probes, writes,    \* what this call of get_api_key did so far
    valid,          \* the key the service accepted in the last probe, or None
    wpc, i, res, headers, wtrace, ep,            \* API function + retry wrapper
    payload,        \* params, data, json, files the caller passed to get / post
    sent,           \* url and payload of each attempt, as the transport got them
    pc,             \* position in commit(); "idle" between calls
    outcome, stage, \* how the last commit() ended, and where it raised
    fname,          \* resolved filename
    project, new_project, ident, project_id,     \* _parse_project
    git_commit,     \* the argument git_commit of this call
    gist,           \* res of line 98: slug, owner, version, title
    environment, paths, depth, output,           \* later steps
    log,            \* requests and events of the current step of commit()
    url,            \* owner and title in the success message
    rcRead          \* _parse_project called get_notebook_slug

kvars == <<kpc, key, prompts, probes, writes, hit, valid>>
wvars == <<wpc, i, res, headers, wtrace, ep, payload, sent>>
pvars == <<current_slug, rc, records, git_records, ncommits, ctx>>
cpos == <<pc, outcome, stage>>
cargs == <<fname, project, new_project, ident, git_commit>>
cres == <<project_id, gist>>
csteps == <<environment, paths, depth, output>>
chist == <<log, url, rcRead>>
cvars == <<cpos, cargs, cres, csteps, chist>>
vars == <<creds, pvars, kvars, wvars, cvars>>

\* ------------------------------------------------------ the remote service
\* The body of a 200 answer, by endpoint; any other status carries no data.
Bodies(e) ==
    CASE e.name = "gist" ->
           {NoData} \cup {[NoData EXCEPT !.slug = p.slug, !.owner = p.owner,
                                         !.title = p.title] : p \in Projects}
      [] e.name = "access" -> {[NoData EXCEPT !.write = b] : b \in BOOLEAN}
      [] OTHER ->
           {[slug |-> p.slug, owner |-> p.owner, title |-> p.title,
             version |-> v, write |-> FALSE] : p \in Projects, v \in 1..MaxVersion}

Responses(e) ==
    {[status |-> HTTP_OK, data |-> d] : d \in Bodies(e)}
      \cup {[status |-> s, data |-> NoData] : s \in Statuses \ {HTTP_OK}}

\* ------------------------------------------------------ credential provider
\* credentials.purge_api_key / write_api_key on the store
purge_api_key(c) == None
write_api_key(c, k) == k

\* (variant) a probe that accepts every key
validate_api_key_always(s) == TRUE

\* api.validate_api_key: the probe GET /user/profile answered with status s
validate_api_key(s) == s = HTTP_OK

\* (variant) the cached token is probed again on every call
get_api_key_enter_revalidate(c) ==
    /\ hit' = c
    /\ valid' = None
    /\ probes' = 0
    /\ writes' = 0
    /\ kpc' = "v1"
    /\ IF c # None
         THEN /\ key' = c
              /\ prompts' = 0
         ELSE /\ \E k \in Keys : key' = k
              /\ prompts' = 1

\* get_api_key is entered with the store holding c: lines 86-88 and 96.
\* A cached token is returned at once; otherwise read_or_request_api_key
\* finds nothing to read and asks the user.
get_api_key_enter(c) ==
    /\ hit' = c
    /\ valid' = None
    /\ probes' = 0
    /\ writes' = 0
    /\ IF c # None
         THEN /\ key' = c
              /\ prompts' = 0
              /\ kpc' = "ret"
         ELSE /\ \E k \in Keys : key' = k
              /\ prompts' = 1
              /\ kpc' = "v1"

\* get_api_key has returned to its caller, or raised through it
get_api_key_leave ==
    /\ kpc' = "off"
    /\ key' = None
    /\ prompts' = 0
    /\ probes' = 0
    /\ writes' = 0
    /\ hit' = None
    /\ valid' = None

\* line 89-90: first validation probe
Validate1 ==
    /\ kpc = "v1"
    /\ probes' = probes + 1
    /\ \E s \in Statuses :
         /\ kpc' = IF validate_api_key(s) THEN "write" ELSE "req2"
         /\ valid' = IF s = HTTP_OK THEN key ELSE None
    /\ UNCHANGED <<creds, pvars, wvars, cvars, key, prompts, writes, hit>>

\* line 91: request_api_key asks the user again
Request2 ==
    /\ kpc = "req2"
    /\ \E k \in Keys : key' = k
    /\ prompts' = prompts + 1
    /\ kpc' = "v2"
    /\ UNCHANGED <<creds, pvars, wvars, cvars, probes, writes, hit, valid>>

\* line 92-93: second validation probe; ApiError when it fails too
Validate2 ==
    /\ kpc = "v2"
    /\ probes' = probes + 1
    /\ \E s \in Statuses :
         /\ kpc' = IF validate_api_key(s) THEN "write" ELSE "raised"
         /\ valid' = IF s = HTTP_OK THEN key ELSE None
    /\ UNCHANGED <<creds, pvars, wvars, cvars, key, prompts, writes, hit>>

\* line 94-95: the validated key is written to the store and returned
WriteKey ==
    /\ kpc = "write"
    /\ creds' = write_api_key(creds, key)
    /\ writes' = writes + 1
    /\ kpc' = "ret"
    /\ UNCHANGED <<pvars, wvars, cvars, key, prompts, probes, hit, valid>>

\* ------------------------------------------------------------ retry wrapper
\* the keyword arguments of a request other than url and headers
NoPayload == [params |-> None, data |-> None, json |-> None, files |-> None]

\* what the API functions pass: api.py lines 117, 126 (url and headers only),
\* 143-146 (data={'public': ..}, files), 155-156 (files; data={} carries
\* nothing when artifact is False)
Payload(e) ==
    CASE e.name = "create" -> [NoPayload EXCEPT !.data = "public", !.files = "nb_file"]
      [] e.name = "upload" -> [NoPayload EXCEPT !.files = "nb_file"]
      [] OTHER -> NoPayload

\* the verb of the endpoint: api.get for the lookups, api.post otherwise
is_get(e) == e.name \in {"gist", "access"}

\* api.get line 69: mkget(url, params=None, **kwargs)
get(q) == [q EXCEPT !.params = None]

\* api.post line 75: mkpost(url, data=None, json=None, **kwargs)
post(q) == [q EXCEPT !.data = None, !.json = None]

\* one attempt as the transport receives it
Sent(e, q) == [url |-> e, payload |-> IF is_get(e) THEN get(q) ELSE post(q)]

\* the wrapper is entered with the headers the call site built from token k
wrapper_enter(e, k) ==
    /\ wpc' = "call"
    /\ i' = 0
    /\ res' = NoRes
    /\ headers' = k
    /\ wtrace' = <<>>
    /\ ep' = e
    /\ payload' = Payload(e)
    /\ sent' = <<>>

wrapper_leave ==
    /\ wpc' = "off"
    /\ i' = 0
    /\ res' = NoRes
    /\ headers' = None
    /\ wtrace' = <<>>
    /\ ep' = NoEp
    /\ payload' = NoPayload
    /\ sent' = <<>>

ReqEvent(h, r) == [ev |-> "req", tok |-> h, res |-> r]
PurgeEvent == [ev |-> "purge", tok |-> None, res |-> NoRes]
HdrEvent(k) == [ev |-> "hdr", tok |-> k, res |-> NoRes]

\* (variant) every failure status is retried
after_response_any_failure(s) == IF s # HTTP_OK THEN "purge" ELSE "ret"

\* line 60 / 54: the position after the transport answered with status s
after_response(s) == IF s = HTTP_UNAUTHORIZED THEN "purge" ELSE "ret"

\* line 52 / 61: the position after attempt n (0-based) was answered by 401
after_refresh(n) == IF n + 1 < Attempts THEN "call" ELSE "ret"

\* line 53-54, 59-60: one attempt
Request ==
    /\ wpc = "call"
    /\ \E r \in Responses(ep) :
         /\ res' = r
         /\ wtrace' = Append(wtrace, ReqEvent(headers, r))
         /\ wpc' = after_response(r.status)
    /\ sent' = Append(sent, Sent(ep, payload))
    /\ log' = IF i = 0 THEN Append(log, ep) ELSE log
    /\ UNCHANGED <<creds, pvars, kvars, i, headers, ep, payload>>
    /\ UNCHANGED <<cpos, cargs, cres, csteps, url, rcRead>>

\* line 55-58: 401: the cached key is purged and _h() asks for a fresh one
Purge ==
    /\ wpc = "purge"
    /\ creds' = purge_api_key(creds)
    /\ wtrace' = Append(wtrace, PurgeEvent)
    /\ get_api_key_enter(creds')
    /\ wpc' = "hdr"
    /\ UNCHANGED <<pvars, cvars, i, res, headers, ep, payload, sent>>

\* line 58, then the loop of line 52 or the return of line 61
Refresh ==
    /\ wpc = "hdr"
    /\ kpc = "ret"
    /\ headers' = key
    /\ wtrace' = Append(wtrace, HdrEvent(key))
    /\ wpc' = after_refresh(i)
    /\ i' = i + 1
    /\ get_api_key_leave
    /\ UNCHANGED <<creds, pvars, cvars, res, ep, payload, sent>>

\* line 58: get_api_key raised ApiError, which leaves the wrapper
RefreshRaise ==
    /\ wpc = "hdr"
    /\ kpc = "raised"
    /\ wpc' = "raised"
    /\ get_api_key_leave
    /\ UNCHANGED <<creds, pvars, cvars, i, res, headers, wtrace, ep, payload, sent>>


\* ------------------------------------------------------------ API functions
\* An API function evaluates headers=_h() at its call site (api.py 117, 126,
\* 135, 156) and only then enters the wrapper.
site_enter(e) ==
    /\ wpc' = "h"
    /\ i' = 0
    /\ res' = NoRes
    /\ headers' = None
    /\ wtrace' = <<>>
    /\ ep' = e
    /\ payload' = NoPayload
    /\ sent' = <<>>
    /\ get_api_key_enter(creds)

\* what an API function does with the response the wrapper returned
Returned(d) == [raise |-> FALSE, data |-> d]
Raised == [raise |-> TRUE, data |-> NoData]

\* (variant) a failed fetch hands back the empty body instead of raising
get_gist_swallow(r) == Returned(r.data)

\* api.get_gist, lines 117-121
get_gist(r) == IF r.status = HTTP_OK THEN Returned(r.data) ELSE Raised

\* api.get_gist_access, lines 126-130
get_gist_access(r) == IF r.status = HTTP_OK THEN Returned(r.data) ELSE Raised

\* api.upload_file lines 157-159 and api.create_gist_simple lines 147-149
upload_file(r) == IF r.status = HTTP_OK THEN Returned(r.data) ELSE Raised

\* the headers are built and the wrapped get/post is called
SiteHeaders ==
    /\ wpc = "h"
    /\ kpc = "ret"
    /\ pc # "create"
    /\ wrapper_enter(ep, key)
    /\ get_api_key_leave
    /\ UNCHANGED <<creds, pvars, cvars>>

\* _h() raised ApiError at the call site
SiteRaise ==
    /\ wpc = "h"
    /\ kpc = "raised"
    /\ wpc' = "raised"
    /\ get_api_key_leave
    /\ UNCHANGED <<creds, pvars, cvars, i, res, headers, wtrace, ep, payload, sent>>

\* ---------------------------------------------------------------- commit
Contexts == {"script", "notebook", "none"}
FilenameArgs == {None, "main"}
ProjectArgs == {None, "s1", "bob/t2", "t1"}
Modes == {None, "auto", "conda", "pip"}

\* misc.is_uuid and the test '/' in project, on the identifiers used here
is_uuid(p) == p \in Slugs
has_slash(p) == p = "bob/t2"

\* _parse_project line 155: username + '/' + project
prepend_username(u, p) == u \o "/" \o p

\* misc.get_file_extension
get_file_extension(f) ==
    CASE f = "main.py" -> ".py"
      [] f = "main.ipynb" -> ".ipynb"
      [] OTHER -> ""

\* filename += ext, on the names used here
add_extension(f, e) == IF e = ".py" THEN "main.py" ELSE "main.ipynb"

\* commit._parse_filename, lines 117-129; d is what the detector finds
parse_filename(f, c, d) ==
    IF f = None
      THEN (IF c \in {"script", "notebook"} THEN d ELSE None)
      ELSE IF get_file_extension(f) \notin {".py", ".ipynb"}
             THEN add_extension(f, IF c = "script" THEN ".py" ELSE ".ipynb")
             ELSE f

\* what get_script_filename / get_notebook_name can answer in context c
Detected(c) ==
    CASE c = "script" -> {"main.py", None}
      [] c = "notebook" -> {"main.ipynb", None}
      [] OTHER -> {None}

\* commit() returns or raises: control is back at the caller
commit_ends(how, where) ==
    /\ pc' = "idle"
    /\ outcome' = how
    /\ stage' = where

\* (variant) the context check lets every process through
context_detected_always(c) == TRUE

\* line 82: in_script() or in_notebook()
context_detected(c) == c \in {"script", "notebook"}

\* lines 82-94: context check, notebook save, filename
CommitBegin ==
    /\ pc = "idle"
    /\ wpc = "off"
    /\ ncommits < MaxCommits
    /\ ncommits' = ncommits + 1
    /\ \E f \in FilenameArgs, d \in Detected(ctx), g \in BOOLEAN :
         IF ~context_detected(ctx)
           THEN /\ commit_ends("skipped", "context")
                /\ fname' = None
                /\ git_commit' = FALSE
           ELSE /\ fname' = parse_filename(f, ctx, d)
                /\ IF fname' = None
                     THEN /\ commit_ends("skipped", "filename")
                          /\ git_commit' = FALSE
                     ELSE /\ pc' = "parse_project"
                          /\ outcome' = "running"
                          /\ stage' = None
                          /\ git_commit' = g
    /\ project' = None
    /\ new_project' = FALSE
    /\ ident' = None
    /\ project_id' = None
    /\ gist' = NoData
    /\ environment' = None
    /\ paths' = <<>>
    /\ depth' = 0
    /\ output' = FALSE
    /\ log' = <<>>
    /\ url' = NoData
    /\ rcRead' = FALSE
    /\ UNCHANGED <<creds, current_slug, rc, records, git_records, ctx, kvars, wvars>>

\* (variant) .jovianrc is consulted before the in-memory slug
resolve_identifier_rc_first(p, n, cur, stored) ==
    IF ~n /\ p = None
      THEN (IF stored # None THEN [id |-> stored, read |-> TRUE]
                            ELSE [id |-> cur, read |-> TRUE])
      ELSE [id |-> p, read |-> FALSE]

\* _parse_project lines 137-143: the identifier to resolve, and whether
\* get_notebook_slug was called for it; stored is what .jovianrc holds
resolve_identifier(p, n, cur, stored) ==
    IF ~n /\ p = None
      THEN (IF cur # None THEN [id |-> cur, read |-> FALSE]
                         ELSE [id |-> stored, read |-> TRUE])
      ELSE [id |-> p, read |-> FALSE]

\* (variant) the write permission is not looked at
writable_project_ignored(a, p) == p

\* _parse_project lines 167-169, 177: the project id handed back for
\* metadata slug p under the permissions a
writable_project(a, p) == IF a.write THEN p ELSE None

\* line 98 is reached with project_id = p: create_gist_simple starts with _h()
create_gist_simple_enter(p) ==
    /\ project_id' = p
    /\ pc' = "create"
    /\ site_enter(Ep("create_gist_simple", p, 0))

\* _parse_project lines 137-155, up to the metadata request
ParseProject ==
    /\ pc = "parse_project"
    /\ \E p \in ProjectArgs, n \in BOOLEAN :
         /\ project' = p
         /\ new_project' = n
         /\ LET r == resolve_identifier(p, n, current_slug, rc[fname]) IN
              /\ ident' = r.id
              /\ rcRead' = r.read
    /\ IF ident' = None
         THEN /\ create_gist_simple_enter(None)
              /\ UNCHANGED <<outcome, stage, gist>>
         ELSE IF is_uuid(ident') \/ has_slash(ident')
                THEN /\ pc' = "get_gist"
                     /\ site_enter(Ep("gist", ident', 0))
                     /\ UNCHANGED <<outcome, stage, cres>>
                ELSE \* line 154: api has no get_current_user: AttributeError
                     /\ commit_ends("raised", "get_current_user")
                     /\ UNCHANGED <<creds, kvars, wvars, cres>>
    /\ UNCHANGED <<creds, pvars, fname, git_commit, csteps, log, url>>

\* an exception of an API call outside any try block leaves commit()
ApiErrorPropagates ==
    /\ wpc = "raised"
    /\ commit_ends("raised", pc)
    /\ wrapper_leave
    /\ UNCHANGED <<creds, pvars, kvars, cargs, cres, csteps, chist>>

\* lines 151-164: metadata came back (or get_gist raised)
GetGistReturn ==
    /\ pc = "get_gist"
    /\ wpc = "ret"
    /\ LET g == get_gist(res) IN
         IF g.raise
           THEN /\ commit_ends("raised", "get_gist")
                /\ wrapper_leave
                /\ UNCHANGED <<creds, kvars, cres>>
           ELSE IF g.data = NoData
                  THEN /\ create_gist_simple_enter(None)
                       /\ UNCHANGED <<outcome, stage, gist>>
                  ELSE /\ project_id' = g.data.slug
                       /\ pc' = "get_access"
                       /\ site_enter(Ep("access", g.data.slug, 0))
                       /\ UNCHANGED <<outcome, stage, gist>>
    /\ UNCHANGED <<creds, pvars, cargs, csteps, chist>>

\* lines 167-177: the access check came back (or get_gist_access raised)
AccessReturn ==
    /\ pc = "get_access"
    /\ wpc = "ret"
    /\ LET a == get_gist_access(res) IN
         IF a.raise
           THEN /\ commit_ends("raised", "get_access")
                /\ wrapper_leave
                /\ UNCHANGED <<creds, kvars, cres>>
           ELSE /\ create_gist_simple_enter(writable_project(a.data, project_id))
                /\ UNCHANGED <<outcome, stage, gist>>
    /\ UNCHANGED <<creds, pvars, cargs, csteps, chist>>

\* api.create_gist_simple lines 135-146: the headers are built, the file is
\* opened, and the file goes to upload_file (which builds its own headers,
\* line 156) when a project was resolved, to /gist/create otherwise
CreateOpen ==
    /\ pc = "create"
    /\ wpc = "h"
    /\ kpc = "ret"
    /\ \E opened \in BOOLEAN :
         IF ~opened
           THEN /\ commit_ends("raised", "open")
                /\ wrapper_leave
                /\ get_api_key_leave
           ELSE IF project_id # None
                  THEN /\ pc' = "upload"
                       /\ site_enter(Ep("upload", project_id, 0))
                       /\ UNCHANGED <<outcome, stage>>
                  ELSE /\ wrapper_enter(Ep("create", None, 0), key)
                       /\ get_api_key_leave
                       /\ UNCHANGED cpos
    /\ UNCHANGED <<creds, pvars, cargs, cres, csteps, chist>>

\* project, new_project and the locals of _parse_project are not used after
\* line 98
resolution_done ==
    /\ project' = None
    /\ new_project' = FALSE
    /\ ident' = None
    /\ project_id' = None
    /\ rcRead' = FALSE

\* lines 98-106: the base upload came back; the slug is remembered in memory
\* and in .jovianrc
CreateReturn ==
    /\ pc \in {"create", "upload"}
    /\ wpc = "ret"
    /\ LET u == upload_file(res) IN
         IF u.raise
           THEN /\ commit_ends("raised", pc)
                /\ UNCHANGED <<gist, current_slug, rc, project, new_project,
                               ident, project_id, rcRead>>
           ELSE /\ gist' = u.data
                /\ current_slug' = u.data.slug
                /\ rc' = [rc EXCEPT ![fname] = u.data.slug]
                /\ pc' = "env"
                /\ resolution_done
                /\ UNCHANGED <<outcome, stage>>
    /\ wrapper_leave
    /\ UNCHANGED <<creds, records, git_records, ncommits, ctx, kvars, fname,
                   git_commit, csteps, log, url>>

\* (variant) a step that passes no version on, so that the service would
\* file it under a version of its own
Step_unversioned(n, ok) == [name |-> n, slug |-> gist.slug, version |-> 0, ok |-> ok]

\* a step of the commit on the project and version of the base upload
Step(n, ok) == [name |-> n, slug |-> gist.slug, version |-> gist.version, ok |-> ok]

\* anaconda.upload_conda_env and pip.upload_pip_env succeed or raise their
\* capture error
CondaOutcomes == {"ok", "CondaError"}
PipOutcomes == {"ok", "Exception"}

\* _capture_environment line 221
conda_attempted(m) == m \in {"auto", "conda"}

\* (variant) every mode falls back to pip when conda did not capture
pip_attempted_any_mode(m, captured) == ~captured

\* _capture_environment line 229
pip_attempted(m, captured) == ~captured /\ m \in {"pip", "auto"}

\* _capture_environment line 226: what the except clause around
\* upload_conda_env catches
conda_caught(c) == c = "CondaError"

\* line 108, _capture_environment lines 215-234
CaptureEnvironment ==
    /\ pc = "env"
    /\ \E m \in Modes, c \in CondaOutcomes, p \in PipOutcomes :
         LET conda == m # None /\ conda_attempted(m)
             captured == conda /\ c = "ok"
             escapes == conda /\ c # "ok" /\ ~conda_caught(c)
             pip == m # None /\ ~escapes /\ pip_attempted(m, captured)
         IN  /\ environment' = m
             /\ log' = (IF conda THEN <<Step("conda", c = "ok")>> ELSE <<>>)
                           \o (IF pip THEN <<Step("pip", p = "ok")>> ELSE <<>>)
             /\ IF escapes
                  THEN commit_ends("raised", "env")
                  ELSE /\ pc' = "files"
                       /\ UNCHANGED <<outcome, stage>>
    /\ UNCHANGED <<creds, pvars, kvars, wvars, cargs, cres, paths, depth, output,
                   url, rcRead>>

PathKinds == {"file", "dir", "missing"}
PathLists == UNION {[1..n -> PathKinds] : n \in 0..MaxPaths}

\* lines 109-110: the output flag each call of _attach_files passes on
output_flag(p) == FALSE

\* line 109-111: the step after a call of _attach_files returned
after_attach(p) == IF p = "files" THEN "outputs" ELSE "records"

\* _attach_file lines 182-188: os.path.dirname(f) is given the file object and
\* raises before api.upload_file is called; the exception is logged
attach_file(o) == Step("attach_file", FALSE)

RECURSIVE attach_all(_, _)
attach_all(n, o) == IF n = 0 THEN <<>> ELSE <<attach_file(o)>> \o attach_all(n - 1, o)

\* (variant) a missing path ends the loop over the paths
ignore_missing_stops ==
    /\ log' = Append(log, Step("ignored", FALSE))
    /\ paths' = <<>>
    /\ UNCHANGED <<cpos, depth>>

\* _attach_files lines 211-212: a path that does not exist is logged with the
\* error flag, and the loop of line 203 goes on with the next path
ignore_missing ==
    /\ log' = Append(log, Step("ignored", FALSE))
    /\ paths' = Tail(paths)
    /\ UNCHANGED <<cpos, depth>>

\* _attach_files lines 191-201, called from line 109 or 110
AttachFilesEnter ==
    /\ pc \in {"files", "outputs"}
    /\ depth = 0
    /\ \E l \in PathLists :
         IF l = <<>>
           THEN /\ pc' = after_attach(pc)
                /\ UNCHANGED <<paths, depth, output>>
           ELSE /\ paths' = l
                /\ depth' = 1
                /\ output' = output_flag(pc)
                /\ UNCHANGED pc
    /\ log' = <<>>
    /\ UNCHANGED <<creds, pvars, kvars, wvars, outcome, stage, cargs, cres,
                   environment, url, rcRead>>

\* _attach_files lines 203-212: one path of the loop.  A directory of n files
\* gives n calls of _attach_file; an existing regular file makes line 210
\* call _attach_files again on the same path, one frame deeper, and the
\* frames above never resume; a missing path is logged.
AttachPath ==
    /\ pc \in {"files", "outputs"}
    /\ depth > 0
    /\ IF paths = <<>>
         THEN /\ pc' = after_attach(pc)
              /\ depth' = 0
              /\ UNCHANGED <<paths, log, outcome, stage>>
         ELSE CASE Head(paths) = "dir" ->
                     /\ \E n \in 0..MaxDirFiles : log' = log \o attach_all(n, output)
                     /\ paths' = Tail(paths)
                     /\ UNCHANGED <<cpos, depth>>
                [] Head(paths) = "missing" -> ignore_missing
                [] OTHER ->
                     IF depth < RecursionLimit
                       THEN /\ depth' = depth + 1
                            /\ paths' = <<Head(paths)>>
                            /\ UNCHANGED <<cpos, log>>
                       ELSE /\ commit_ends("raised", pc)
                            /\ UNCHANGED <<paths, depth, log>>
    /\ UNCHANGED <<creds, pvars, kvars, wvars, cargs, cres, environment, output,
                   url, rcRead>>

\* git.is_git(): the process runs inside a git repository
is_git == TRUE

\* records.reset_records('git') and records.log_git on the buffer of n
\* records, g of them of type 'git'
reset_records(n, g) == [records |-> n - g, git_records |-> 0]
log_git(b) == [records |-> b.records + 1, git_records |-> b.git_records + 1]

\* _perform_git_commit lines 237-250: the buffer it leaves.  commit() takes
\* the argument git_commit and calls this function nowhere (lines 96-114).
perform_git_commit(g, n, m) ==
    IF g /\ is_git THEN log_git(reset_records(n, m))
                   ELSE [records |-> n, git_records |-> m]

\* records.get_record_slugs: one tracking slug per record in the buffer
get_record_slugs(n) == n

\* line 111, _attach_records lines 253-258: api has no post_records, so a
\* non-empty buffer ends in AttributeError
AttachRecords ==
    /\ pc = "records"
    /\ IF get_record_slugs(records) > 0
         THEN commit_ends("raised", "records")
         ELSE /\ pc' = "success"
              /\ UNCHANGED <<outcome, stage>>
    /\ log' = <<>>
    /\ UNCHANGED <<creds, pvars, kvars, wvars, cargs, cres, csteps, url, rcRead>>

\* lines 113-114: the success log with the URL, then commit() returns
Success ==
    /\ pc = "success"
    /\ url' = [NoData EXCEPT !.owner = gist.owner, !.title = gist.title]
    /\ log' = <<Step("success", TRUE)>>
    /\ commit_ends("done", None)
    /\ UNCHANGED <<creds, pvars, kvars, wvars, cargs, cres, csteps, rcRead>>

\* jovian.log_hyperparams / log_metrics / log_dataset between commits
LogRecord ==
    /\ pc = "idle"
    /\ records < MaxRecords
    /\ records' = records + 1
    /\ UNCHANGED <<creds, current_slug, rc, git_records, ncommits, ctx, kvars,
                   wvars, cvars>>

\* ------------------------------------------------------------ specification
\* A fresh process: nothing in memory; the credentials store and .jovianrc
\* hold whatever earlier processes left.
Init ==
    /\ creds \in {None, "k1"}
    /\ current_slug = None
    /\ rc \in {[f \in Filenames |-> s] : s \in {None, "s1"}}
    /\ records = 0
    /\ git_records = 0
    /\ ncommits = 0
    /\ ctx \in Contexts
    /\ kpc = "off" /\ key = None /\ prompts = 0 /\ probes = 0 /\ writes = 0
    /\ hit = None /\ valid = None
    /\ wpc = "off" /\ i = 0 /\ res = NoRes /\ headers = None /\ wtrace = <<>>
    /\ ep = NoEp /\ payload = NoPayload /\ sent = <<>>
    /\ pc = "idle" /\ outcome = None /\ stage = None
    /\ fname = None
    /\ project = None /\ new_project = FALSE /\ ident = None /\ project_id = None
    /\ git_commit = FALSE
    /\ gist = NoData
    /\ environment = None /\ paths = <<>> /\ depth = 0 /\ output = FALSE
    /\ log = <<>> /\ url = NoData
    /\ rcRead = FALSE

Next ==
    \/ Validate1 \/ Request2 \/ Validate2 \/ WriteKey
    \/ Request \/ Purge \/ Refresh \/ RefreshRaise
    \/ SiteHeaders \/ SiteRaise \/ ApiErrorPropagates
    \/ CommitBegin \/ ParseProject \/ GetGistReturn \/ AccessReturn
    \/ CreateOpen \/ CreateReturn
    \/ CaptureEnvironment \/ AttachFilesEnter \/ AttachPath
    \/ AttachRecords \/ Success
    \/ LogRecord

Spec == Init /\ [][Next]_vars

\* ================================================================ properties
\* the attempts and purges of the current wrapper call
Reqs == SelectSeq(wtrace, LAMBDA e : e.ev = "req")
attempts == Len(Reqs)
purges == Len(SelectSeq(wtrace, LAMBDA e : e.ev = "purge"))

BothUnauthorized ==
    /\ attempts >= Attempts
    /\ \A n \in 1..Attempts : Reqs[n].res.status = HTTP_UNAUTHORIZED

\* C1: when the transport answers 401 on both attempts, the wrapper makes
\* exactly two attempts and returns the second response unmodified, without
\* raising, whatever the credential provider does.
C1_ReturnsSecondUnauthorized ==
    BothUnauthorized =>
        /\ attempts = Attempts
        /\ wpc # "raised"
        /\ wpc = "ret" => res = Reqs[Attempts].res

\* C2: the transport is invoked at most twice per call: once when the first
\* response is not 401 (returned as it is, nothing purged, the store still
\* holding the token that was sent), and a second time only after a 401, the
\* purge of the store and headers rebuilt from a token that was asked for,
\* validated and stored after the purge.
C2_AtMostTwoAttempts ==
    /\ attempts <= Attempts
    /\ (attempts >= 1 /\ Reqs[1].res.status # HTTP_UNAUTHORIZED) =>
          /\ attempts = 1
          /\ purges = 0
          /\ wpc = "ret"
          /\ res = Reqs[1].res
          /\ creds = Reqs[1].tok
    /\ attempts = Attempts =>
          /\ wtrace[1].ev = "req" /\ wtrace[1].res.status = HTTP_UNAUTHORIZED
          /\ wtrace[2].ev = "purge"
          /\ wtrace[3].ev = "hdr"
          /\ wtrace[4].ev = "req" /\ wtrace[4].tok = wtrace[3].tok
    /\ (wpc = "hdr" /\ kpc = "ret") =>
          /\ hit = None
          /\ prompts >= 1
          /\ valid = key
          /\ creds = key

C2_Retried == attempts = Attempts /\ wpc = "ret" /\ res.status = HTTP_OK

\* C9: with a token in the store, get_api_key returns that token with no
\* prompt, no validation probe and no write to the store.
C9_CacheHit ==
    (kpc # "off" /\ hit # None) =>
        /\ kpc = "ret"
        /\ key = hit
        /\ prompts = 0
        /\ probes = 0
        /\ writes = 0
        /\ creds = hit

C9_HitReturned == kpc = "ret" /\ hit # None /\ wpc = "h" /\ pc = "get_gist"

\* C10: with no token in the store, get_api_key makes at most two probes;
\* after a failed first probe the store holds no token and the user is asked
\* once more; after a failed second probe it raises, nothing written; a key
\* is written and returned only when the service accepted it in a probe.
C10_BoundedValidation ==
    (kpc # "off" /\ hit = None) =>
        /\ probes <= 2 /\ prompts <= 2
        /\ kpc = "v1" => (prompts = 1 /\ probes = 0 /\ creds = None)
        /\ kpc = "req2" => (prompts = 1 /\ probes = 1 /\ creds = None)
        /\ kpc = "v2" => (prompts = 2 /\ probes = 1 /\ creds = None)
        /\ kpc = "raised" => (prompts = 2 /\ probes = 2 /\ writes = 0 /\ creds = None)
        /\ kpc = "write" => (valid = key /\ writes = 0 /\ creds = None)
        /\ kpc = "ret" => (valid = key /\ writes = 1 /\ creds = key)

C10_SecondKeyStored ==
    kpc = "ret" /\ hit = None /\ probes = 2 /\ prompts = 2 /\ creds = key

\* the steps of commit() in which the project is resolved (line 96)
ResolutionSteps == {"parse_project", "get_gist", "get_access"}

\* the metadata fetch or the access check did not succeed
FailedFetch ==
    /\ pc \in {"get_gist", "get_access"}
    /\ \/ wpc = "ret" /\ res.status # HTTP_OK
       \/ wpc = "raised"

OnlyLookups(l) == \A n \in 1..Len(l) : l[n].name \in {"gist", "access"}

C4_FetchFailureDegrades ==
    [][(pc = "get_gist" /\ wpc = "ret" /\ res.status # HTTP_OK) =>
         (pc' = "create" /\ project_id' = None)]_vars

\* the access check of this commit answered write = false
Denied ==
    /\ pc \in {"create", "upload"}
    /\ project_id = None
    /\ \E n \in 1..Len(log) : log[n].name = "access"

\* C5: when check-access reports write = false, _parse_project returns
\* (None, None) although the metadata were fetched, and the commit sends the
\* base file to /gist/create, never to the upload endpoint of the denied
\* project.
C5_DeniedCreatesNew ==
    /\ [][(pc = "get_access" /\ wpc = "ret" /\ res.status = HTTP_OK
             /\ ~res.data.write) =>
            (pc' = "create" /\ project_id' = None)]_vars
    /\ [](Denied =>
            /\ pc = "create"
            /\ ep.name \in {"create_gist_simple", "create"}
            /\ wpc \in {"call", "purge", "hdr", "ret", "raised"} => ep.name = "create"
            /\ \A n \in 1..Len(log) : log[n].name # "upload")

C5_DeniedThenCreated ==
    Denied /\ wpc = "ret" /\ res.status = HTTP_OK /\ ep.name = "create"
      /\ log[Len(log)].name = "create"

\* the project of this commit has been looked up and project, new_project are
\* still in use
Resolving == pc \in {"get_gist", "get_access", "create", "upload"}

\* C6: once a commit has set the in-memory slug, a later commit with
\* project=None and new_project=False resolves from that slug and does not
\* read .jovianrc; a commit with new_project=True and project=None consults
\* neither and resolves to (None, None), and the slug of the project it
\* creates becomes the in-memory slug.
C6_InMemorySlugReused ==
    /\ []((Resolving /\ current_slug # None /\ project = None /\ ~new_project) =>
            (ident = current_slug /\ ~rcRead))
    /\ []((Resolving /\ project = None /\ new_project) =>
            (ident = None /\ ~rcRead /\ project_id = None /\ pc = "create"))
    /\ [][(pc = "create" /\ project = None /\ new_project /\ pc' = "env") =>
            (ep.name = "create" /\ res.status = HTTP_OK
               /\ current_slug' = res.data.slug)]_vars

C6_SecondCommitReuses ==
    /\ pc = "get_gist" /\ wpc = "call" /\ ep.slug = current_slug
    /\ ncommits = 2 /\ current_slug # None /\ rc[fname] = current_slug
    /\ project = None /\ ~new_project

\* C7: in a script context with no in-memory slug and no persisted mapping,
\* commit(environment='pip', files=[an existing regular file]) creates a new
\* project, uploads a pip snapshot and no conda one, attaches the file,
\* issues no record request for an empty buffer, logs the success URL with
\* the new project's owner and title, and finishes.
C7_ScriptPipScenario ==
    /\ [][(pc = "parse_project" /\ ctx = "script" /\ current_slug = None
             /\ rc[fname] = None /\ project' = None /\ ~new_project') =>
            (pc' = "create" /\ project_id' = None)]_vars
    /\ [][(pc = "env" /\ environment' = "pip") =>
            (pc' = "files" /\ Len(log') = 1 /\ log'[1].name = "pip")]_vars
    /\ [][(pc = "files" /\ ctx = "script" /\ environment = "pip" /\ depth = 1
             /\ paths = <<"file">>) =>
            (paths' = <<>> /\ log' = <<Step("attach_file", TRUE)>>)]_vars
    /\ [][(pc = "records" /\ records = 0) => (pc' = "success" /\ log' = <<>>)]_vars
    /\ [][pc = "success" =>
            (outcome' = "done" /\ url'.owner = gist.owner
               /\ url'.title = gist.title)]_vars

\* the steps of commit() after the base upload (lines 108-111)
LaterSteps == {"env", "files", "outputs", "records"}

\* C8: once the base upload has succeeded, a failure in a later step
\* (environment capture, an attachment, record attachment) is caught and
\* logged and does not raise out of commit.
C8_LaterFailuresCaught == ~(outcome = "raised" /\ stage \in LaterSteps)

\* C11: the metadata request of _parse_project is made for the resolved
\* identifier as it is when it is an opaque id or contains '/', and for
\* '<current username>/<title>' when it is a bare title.
C11_UsernamePrefixing ==
    [][(pc = "parse_project" /\ ident' # None) =>
         /\ pc' = "get_gist"
         /\ ep'.name = "gist"
         /\ IF is_uuid(ident') \/ has_slash(ident')
              THEN ep'.slug = ident'
              ELSE \E q \in Projects : ep'.slug = prepend_username(q.owner, ident')]_vars

\* C12: a commit called with new_project=True always creates a new project:
\* the base file goes to the create endpoint and is never uploaded to an
\* existing project, whatever project, the in-memory slug and .jovianrc hold.
C12_NewProjectAlwaysCreates ==
    (Resolving /\ new_project) =>
        /\ pc # "upload"
        /\ ep.name # "upload"
        /\ \A n \in 1..Len(log) : log[n].name # "upload"

\* C13: the paths of outputs are attached with the output/artifact role and
\* the paths of files with the input role: while _attach_files works on
\* outputs the role flag it hands to every upload is set, while it works on
\* files it is not.
C13_OutputsAreArtifacts ==
    /\ (pc = "outputs" /\ depth > 0) => output
    /\ (pc = "files" /\ depth > 0) => ~output

\* C14: a commit with git_commit=True inside a git repository logs the git
\* metadata as a 'git' record after resetting the earlier ones: when such a
\* commit has completed, the record buffer holds exactly one git record.
C14_GitRecordLogged ==
    (pc = "idle" /\ outcome = "done" /\ git_commit /\ is_git) => git_records = 1

\* the steps of l all name the project and the version of g
AllOn(l, g) ==
    \A n \in 1..Len(l) : l[n].slug = g.slug /\ l[n].version = g.version

\* C15: within one commit, every upload after the base upload (environment
\* snapshot, attachments, records) targets the slug and the version that the
\* base upload of this call returned; no two of them differ in version.
C15_OneVersionPerCommit ==
    /\ [][(pc \in {"create", "upload"} /\ pc' = "env") =>
            /\ res.status = HTTP_OK
            /\ gist'.slug = res.data.slug
            /\ gist'.version = res.data.version]_vars
    /\ [][(pc \in LaterSteps \/ pc = "success") =>
            (gist' = gist /\ AllOn(log', gist))]_vars

C15_TwoSnapshotsSameVersion ==
    /\ pc = "files" /\ depth = 0 /\ gist.version = 2 /\ Len(log) = 2
    /\ log[1].name = "conda" /\ log[2].name = "pip"
    /\ log[1].version = 2 /\ log[2].version = 2

\* _attach_files is at a path of its list
AtPath(k) ==
    /\ pc \in {"files", "outputs"}
    /\ depth > 0
    /\ paths # <<>>
    /\ Head(paths) = k

\* C16: a listed path that does not exist is logged with the error flag and
\* skipped: nothing is raised, commit stays in the step, and the loop goes on
\* with every remaining path of the list.
C16_MissingPathSkipped ==
    [][AtPath("missing") =>
         /\ log' = Append(log, Step("ignored", FALSE))
         /\ paths' = Tail(paths)
         /\ pc' = pc
         /\ depth' = depth
         /\ outcome' = "running"]_vars

C16_DirectoryAfterMissing ==
    /\ pc = "files" /\ depth = 1 /\ paths = <<>> /\ Len(log) = 2
    /\ log[1].name = "ignored" /\ log[2].name = "attach_file"

\* how many entries of l are named n
Calls(l, n) == Len(SelectSeq(l, LAMBDA e : e.name = n))

\* C17: for a directory, _attach_files reaches every contained file and
\* attempts an upload request for each one: each call of _attach_file is
\* matched by a request to the upload endpoint, also after a failed one.
C17_UploadPerDirectoryFile ==
    (pc \in {"files", "outputs"}) =>
        Calls(log, "upload") = Calls(log, "attach_file")

\* C18: when no notebook or script context is detected, or the filename
\* cannot be resolved, commit returns without raising after only logging: no
\* request is issued, and the in-memory slug, .jovianrc and the credentials
\* store are left as they were.
C18_NoContextNoOp ==
    /\ [][(ncommits' = ncommits + 1 /\ (ctx = "none" \/ fname' = None)) =>
            /\ pc' = "idle"
            /\ outcome' = "skipped"
            /\ log' = <<>>
            /\ wpc' = "off"
            /\ kpc' = "off"
            /\ current_slug' = current_slug
            /\ rc' = rc
            /\ creds' = creds]_vars
    /\ [](outcome = "skipped" =>
            (pc = "idle" /\ wpc = "off" /\ kpc = "off" /\ log = <<>>))

C18_SkippedAfterCommit ==
    /\ pc = "idle" /\ outcome = "skipped" /\ stage = "filename"
    /\ ncommits = 2 /\ current_slug # None /\ rc["main.py"] = current_slug

\* the entries of l that went through
Succeeded(l) == {n \in 1..Len(l) : l[n].ok}

\* C19: _capture_environment attempts conda first exactly when the mode is
\* 'auto' or 'conda', and pip exactly when conda did not succeed and the mode
\* is 'pip' or 'auto': 'conda' never falls back to pip, 'pip' never attempts
\* conda, None attempts neither, and at most one snapshot is uploaded.
C19_EnvironmentModes ==
    [][pc = "env" =>
         LET m == environment'
             conda == Calls(log', "conda")
             pip == Calls(log', "pip")
             captured == \E n \in Succeeded(log') : log'[n].name = "conda"
         IN  /\ Len(log') = conda + pip
             /\ conda = (IF m \in {"auto", "conda"} THEN 1 ELSE 0)
             /\ pip = (IF ~captured /\ m \in {"pip", "auto"} THEN 1 ELSE 0)
             /\ conda = 1 => log'[1].name = "conda"
             /\ m = "conda" => pip = 0
             /\ m = "pip" => conda = 0
             /\ m = None => log' = <<>>
             /\ Cardinality(Succeeded(log')) <= 1]_vars

C19_FellBackToPip ==
    /\ pc = "files" /\ depth = 0 /\ environment = "auto"
    /\ Len(log) = 2 /\ ~log[1].ok /\ log[2].ok

\* C20: _attach_files terminates for every finite list of paths: an existing
\* regular file leads to exactly one call of _attach_file, after which the
\* loop goes on in the same frame; no call of _attach_files is nested in
\* another, and the step does not end in an exception.
C20_AttachFilesTerminates ==
    /\ [][AtPath("file") =>
            /\ Calls(log', "attach_file") = Calls(log, "attach_file") + 1
            /\ paths' = Tail(paths)
            /\ depth' = depth
            /\ pc' = pc]_vars
    /\ [](depth <= 1)
    /\ [](outcome = "raised" => stage \notin {"files", "outputs"})

\* C21: every attempt the retry-wrapped get / post sends to the transport
\* carries the url and the payload (params, data, json, files) the caller
\* passed to the wrapper; the first and the second attempt differ in nothing
\* but the headers.
C21_PayloadReachesTransport ==
    /\ \A n \in 1..Len(sent) : sent[n].url = ep /\ sent[n].payload = payload
    /\ \A n, k \in 1..Len(sent) : sent[n] = sent[k]

====
